---- MODULE Spec2Model ----
(***************************************************************************)
(* A model of macSimpleParser (src/main.py): MacParser.fetch_menu fans one *)
(* _parse_item coroutine per item link out through asyncio.gather, bounded *)
(* by an asyncio.Semaphore, and main() writes the gathered MenuItems to    *)
(* data.json.  The asyncio event loop is modelled by its FIFO queue of     *)
(* ready callbacks; I/O completions arrive in any order.                   *)
(*                                                                         *)
(* Texts are sequences of one-character strings, so that str.strip and     *)
(* str.join are computed and not assumed.                                  *)
(***************************************************************************)
EXTENDS Integers, Sequences, FiniteSets, TLC

\* ------------------------------------------------------------------------
\* Bounds of the model
\* ------------------------------------------------------------------------
MaxLinks == 3   \* item links on the listing page: 0..MaxLinks
MaxK     == 2   \* max_sim_pages: 1..MaxK
MaxLen   == 3   \* length of a generated node text
MaxNodes == 2   \* nodes matched by a selector in a generated document

\* ------------------------------------------------------------------------
\* MenuItem and the selectors of _parse_item
\* ------------------------------------------------------------------------
MenuItem ==
    {"name", "description", "calories", "fats", "carbs", "proteins",
     "unsaturated_fats", "sugar", "salt", "portion"}

SingleFields == {"name", "description"}

Selector(field) ==
    CASE field = "name" -> "span.cmp-product-details-main__heading-title"
      [] field = "description" -> "div.cmp-product-details-main__description"
      [] field = "calories" -> "li.cmp-nutrition-summary__heading-primary-item:nth-child(1) span[aria-hidden]:not([class])"
      [] field = "fats" -> "li.cmp-nutrition-summary__heading-primary-item:nth-child(2) span[aria-hidden]:not([class])"
      [] field = "carbs" -> "li.cmp-nutrition-summary__heading-primary-item:nth-child(3) span[aria-hidden]:not([class])"
      [] field = "proteins" -> "li.cmp-nutrition-summary__heading-primary-item:nth-child(4) span[aria-hidden]:not([class])"
      [] field = "unsaturated_fats" -> "div.cmp-nutrition-summary__details-column-view-desktop li.label-item:nth-child(1) > span:nth-child(2) span[aria-hidden]:not([class])"
      [] field = "sugar" -> "div.cmp-nutrition-summary__details-column-view-desktop li.label-item:nth-child(2) > span:nth-child(2) span[aria-hidden]:not([class])"
      [] field = "salt" -> "div.cmp-nutrition-summary__details-column-view-desktop li.label-item:nth-child(3) > span:nth-child(2) span[aria-hidden]:not([class])"
      [] field = "portion" -> "div.cmp-nutrition-summary__details-column-view-desktop li.label-item:nth-child(4) > span:nth-child(2) span[aria-hidden]:not([class])"

Selectors == {Selector(f) : f \in MenuItem}

\* ------------------------------------------------------------------------
\* Text: str.strip and str.join
\* ------------------------------------------------------------------------
\* An optional value is a sequence of no or one element: None is the empty
\* one.  AttributeError is what reading .text of None raises.
None == <<>>
AttributeError == <<"AttributeError">>

Whitespace == {" ", "\n", "\t"}

RECURSIVE lstrip(_)
lstrip(s) ==
    IF s = <<>> THEN s
    ELSE IF Head(s) \in Whitespace THEN lstrip(Tail(s)) ELSE s

RECURSIVE rstrip(_)
rstrip(s) ==
    IF s = <<>> THEN s
    ELSE IF s[Len(s)] \in Whitespace THEN rstrip(SubSeq(s, 1, Len(s) - 1)) ELSE s

\* str.strip() with only the leading whitespace removed (a faulty strip).
strip_leading_only(s) == lstrip(s)

\* str.strip(): leading and trailing whitespace removed.
strip(s) == rstrip(lstrip(s))

\* sep.join(parts)
RECURSIVE join(_, _)
join(sep, parts) ==
    IF parts = <<>> THEN <<>>
    ELSE IF Len(parts) = 1 THEN parts[1]
    ELSE parts[1] \o sep \o join(sep, Tail(parts))

\* ------------------------------------------------------------------------
\* BeautifulSoup: a parsed document maps each selector to the texts of the
\* nodes it matches, in document order.
\* ------------------------------------------------------------------------
select(soup, selector) == soup[selector]

\* soup.select_one: the first match, or None.
select_one(soup, selector) ==
    IF soup[selector] = <<>> THEN None ELSE <<soup[selector][1]>>

\* tag.text of a matched node.
text(tag) == tag

\* selected.text of what select_one gave; of None it raises AttributeError.
text_opt(selected) == IF selected = None THEN AttributeError ELSE text(selected[1])

\* _take_hidden with the separator also put after the last node (a faulty join).
_take_hidden_trailing(soup, selector) ==
    LET selected == select(soup, selector)
    IN  IF selected = <<>> THEN <<>>
        ELSE join(<<"\n">>, [i \in 1..Len(selected) |-> strip(text(selected[i]))]) \o <<"\n">>

\* MacParser._take_hidden
_take_hidden(soup, selector) ==
    LET selected == select(soup, selector)
    IN  join(<<"\n">>, [i \in 1..Len(selected) |-> strip(text(selected[i]))])

\* MacParser._take_string_opt
_take_string_opt(soup, selector) ==
    LET selected == select_one(soup, selector)
    IN  IF selected # None THEN strip(text_opt(selected)) ELSE <<>>

\* The MenuItem(...) built by _parse_item from the parsed page.
BuildItem(soup) ==
    [f \in MenuItem |->
        IF f \in SingleFields THEN _take_string_opt(soup, Selector(f))
        ELSE _take_hidden(soup, Selector(f))]


\* ------------------------------------------------------------------------
\* The site: the listing page and the item pages
\* ------------------------------------------------------------------------
BASE_URL == "https://www.mcdonalds.com"

\* The hrefs an item link of the listing page may carry.
Hrefs == {"/a", "/b"}

\* urllib.parse.urljoin(base, href) for a site-absolute href.
urljoin(base, href) == <<base, href>>

\* The item links of a listing page with n links: two pages for every n, one
\* whose neighbouring links differ and one that repeats a link.
ListingBodies(n) ==
    {[i \in 1..n |-> IF i % 2 = 1 THEN "/a" ELSE "/b"],
     [i \in 1..n |-> IF i <= 2 THEN "/b" ELSE "/a"]}

\* What the GET of the listing page may give: a response with status 200,
\* a response with an error status (httpx returns it like any other; hrefs
\* are the item links of its body), or an exception of the transport.
Listings ==
    [status : {"ok", "http_error"},
     hrefs : UNION {ListingBodies(n) : n \in 0..MaxLinks}]
      \cup [status : {"raises"}, hrefs : {<<>>}]

NoNodes == [s \in Selectors |-> <<>>]

\* The rendered document of each item page, as BeautifulSoup parses it.
Content(url) ==
    IF url = urljoin(BASE_URL, "/a")
    THEN [NoNodes EXCEPT
            ![Selector("name")] = << <<" ", "A", " ", "a", "\n">>, <<"z">> >>,
            ![Selector("description")] = << <<"d">> >>,
            ![Selector("calories")] = << <<"1", "0">>, <<" ", "2", "0">>, <<"3", "0", " ">> >>,
            ![Selector("salt")] = << <<"\t", "1">> >>]
    ELSE IF url = urljoin(BASE_URL, "/b")
    THEN [NoNodes EXCEPT
            ![Selector("description")] = << <<" ", "\n">> >>,
            ![Selector("fats")] = << <<"7">> >>]
    ELSE NoNodes

\* ------------------------------------------------------------------------
\* State
\* ------------------------------------------------------------------------
VARIABLES
    listing,        \* what the site answers to the GET of the listing page
    max_sim_pages,  \* MacParser.max_sim_pages
    mainpc,         \* where main() is
    loop,           \* the event loop of asyncio.run: running, stopping, closing, closed
    ready,          \* the loop's FIFO queue of ready callbacks
    batch,          \* how many of them the current pass of the loop still runs
    playwright,     \* the render session: none, started, stopped
    session,        \* the httpx.AsyncClient: none, entered, closed
    links,          \* fetch_menu: the item links, in document order
    sem_value,      \* Semaphore._value
    sem_waiters,    \* Semaphore._waiters: the tasks whose future is queued
    fut,            \* per task, the state of its waiter future
    pc,             \* per task, where its _parse_item is
    must_cancel,    \* the tasks asyncio.run has cancelled
    pages,          \* per task, the page it opened on the context
    item,           \* the MenuItem built, of each task that has built one
    result,         \* the MenuItem returned, of each task that has returned
    admitted,       \* history: the tasks in the order they left acquire()
    completed,      \* history: the tasks in the order they returned
    nfinished,      \* gather: the children that are done
    outer,          \* gather: the outer future
    menu,           \* main: the list fetch_menu returned
    data_json,      \* the output document
    calls,          \* history: per task, how often it called what
    soup,           \* the document under extraction (extractor runs)
    extracted       \* the extractor's last call and its value (extractor runs)

crawl_vars ==
    <<listing, max_sim_pages, mainpc, loop, ready, batch, playwright, session,
      links, sem_value, sem_waiters, fut, pc, must_cancel, pages, item, result, admitted,
      completed, nfinished, outer, menu, data_json, calls>>

vars == <<crawl_vars, soup, extracted>>

Tasks == 1..Len(links)

\* A page before navigation shows about:blank.
AboutBlank == <<"about:blank", "">>

NoPage == [opened |-> FALSE, closed |-> FALSE, url |-> AboutBlank]

Waiting == {"opening", "navigating", "reading", "closing"}

\* What a task has not called yet: context.new_page(), page.goto(),
\* MenuItem(...) and the release of the semaphore.
NoCalls == [new_page |-> 0, goto |-> 0, MenuItem |-> 0, release |-> 0]

\* The history with one more call of what by task i.
Called(i, what) == [calls EXCEPT ![i][what] = @ + 1]

InitCrawl(l, k) ==
    /\ listing = l
    /\ max_sim_pages = k
    /\ mainpc = "start"
    /\ loop = "running"
    /\ ready = <<>>
    /\ batch = 0
    /\ playwright = "none"
    /\ session = "none"
    /\ links = <<>>
    /\ sem_value = 0
    /\ sem_waiters = <<>>
    /\ fut = <<>>
    /\ pc = <<>>
    /\ must_cancel = {}
    /\ pages = <<>>
    /\ item = <<>>
    /\ result = <<>>
    /\ admitted = <<>>
    /\ completed = <<>>
    /\ nfinished = 0
    /\ outer = [state |-> "none", value |-> <<>>]
    /\ menu = <<>>
    /\ data_json = [written |-> FALSE, doc |-> <<>>]
    /\ calls = <<>>

Init ==
    /\ \E l \in Listings, k \in 1..MaxK : InitCrawl(l, k)
    /\ soup = NoNodes
    /\ extracted = [call |-> "none", value |-> <<>>]


\* ------------------------------------------------------------------------
\* The event loop's callbacks
\* ------------------------------------------------------------------------
\* Task.__step / Task.__wakeup of task i, with the outcome of what it awaited.
Step(i, o) == [cb |-> "step", task |-> i, outcome |-> o]
\* gather's _done_callback for child i.
Done(i) == [cb |-> "done", task |-> i, outcome |-> "ok"]
\* The wakeup of the main task by gather's outer future.
MainStep == [cb |-> "main", task |-> 0, outcome |-> "ok"]
\* run_until_complete's callback on the main task: loop.stop().
StopLoop == [cb |-> "stop", task |-> 0, outcome |-> "ok"]

Queued(i) == \E k \in 1..Len(ready) : ready[k].cb = "step" /\ ready[k].task = i

Remove(seq, x) == SelectSeq(seq, LAMBDA y : y # x)

\* ------------------------------------------------------------------------
\* asyncio.Semaphore
\* ------------------------------------------------------------------------
\* Semaphore.locked with the waiters ignored and the counter not read.
never_locked(value, waiters, f) == FALSE

\* Semaphore.locked
locked(value, waiters, f) ==
    value = 0 \/ \E k \in 1..Len(waiters) : f[waiters[k]] # "cancelled"

\* The last waiter whose future is not done (a LIFO wake-up).
LastWaiter(waiters, f) ==
    LET idx == {k \in 1..Len(waiters) : f[waiters[k]] = "pending"}
    IN  IF idx = {} THEN 0 ELSE waiters[CHOOSE k \in idx : \A m \in idx : m <= k]

\* The first waiter whose future is not done; 0 if there is none.
FirstWaiter(waiters, f) ==
    LET idx == {k \in 1..Len(waiters) : f[waiters[k]] = "pending"}
    IN  IF idx = {} THEN 0 ELSE waiters[CHOOSE k \in idx : \A m \in idx : k <= m]

\* Semaphore._wake_up_next: the counter, the futures and the wakeup scheduled.
_wake_up_next(value, waiters, f) ==
    LET w == FirstWaiter(waiters, f)
    IN  IF w = 0
        THEN [value |-> value, fut |-> f, woken |-> <<>>]
        ELSE [value |-> value - 1, fut |-> [f EXCEPT ![w] = "result"],
              woken |-> <<Step(w, "ok")>>]

\* Semaphore.release
release(value, waiters, f) == _wake_up_next(value + 1, waiters, f)

\* The page context.new_page() gives every invocation: one page for all.
shared_page(i) == 1

\* The page context.new_page() gives invocation i: a page of its own.
new_page(i) == i

\* ------------------------------------------------------------------------
\* main() and MacParser.create
\* ------------------------------------------------------------------------
\* async_playwright().start(), MacParser.create; fetch_menu sends the GET.
Create ==
    /\ mainpc = "start"
    /\ mainpc' = "get"
    /\ batch' = batch
    /\ playwright' = "started"
    /\ session' = "entered"
    /\ UNCHANGED <<listing, max_sim_pages, loop, ready, links, sem_value,
                   sem_waiters, fut, pc, must_cancel, pages, item, result,
                   admitted, completed, nfinished, outer, menu, data_json,
                   calls, soup, extracted>>

\* session.get raises: the exception leaves fetch_menu and main.
ListingRaises ==
    /\ mainpc = "get"
    /\ listing.status = "raises"
    /\ mainpc' = "raised"
    /\ batch' = batch
    /\ ready' = Append(ready, StopLoop)
    /\ UNCHANGED <<listing, max_sim_pages, loop, playwright, session, links,
                   sem_value, sem_waiters, fut, pc, must_cancel, pages, item,
                   result, admitted, completed, nfinished, outer, menu,
                   data_json, calls, soup, extracted>>

\* session.get returns a response (its status is not looked at): the links
\* are taken from its body, the semaphore is made and gather makes one task
\* per link, in order.  gather() of nothing is done at once, and main goes on
\* to playwright.stop().
FetchMenu ==
    /\ mainpc = "get"
    /\ listing.status # "raises"
    /\ batch' = batch
    /\ LET n == Len(listing.hrefs)
       IN  /\ links' = [i \in 1..n |-> urljoin(BASE_URL, listing.hrefs[i])]
           /\ sem_value' = max_sim_pages
           /\ pc' = [i \in 1..n |-> "created"]
           /\ fut' = [i \in 1..n |-> "none"]
           /\ pages' = [i \in 1..n |-> NoPage]
           /\ item' = <<>>
           /\ result' = <<>>
           /\ ready' = [i \in 1..n |-> Step(i, "ok")]
           /\ calls' = [i \in 1..n |-> NoCalls]
           /\ IF n = 0
              THEN /\ outer' = [state |-> "result", value |-> <<>>]
                   /\ menu' = <<>>
                   /\ mainpc' = "stop"
              ELSE /\ outer' = [state |-> "pending", value |-> <<>>]
                   /\ menu' = menu
                   /\ mainpc' = "gather"
    /\ UNCHANGED <<listing, max_sim_pages, loop, playwright, session,
                   sem_waiters, must_cancel, admitted, completed, nfinished,
                   data_json, soup, extracted>>


\* ------------------------------------------------------------------------
\* MacParser._parse_item, one action per resumption of the coroutine
\* ------------------------------------------------------------------------
Runs(i, o) ==
    /\ batch > 0
    /\ Head(ready) = Step(i, o)
    /\ batch' = batch - 1

\* First step of task i: "async with semaphore" acquires at once when the
\* semaphore is not locked, and calls context.new_page(); else the task
\* queues a future and waits.
TaskStart(i) ==
    /\ Runs(i, "ok")
    /\ i \notin must_cancel
    /\ pc[i] = "created"
    /\ ready' = Tail(ready)
    /\ IF ~locked(sem_value, sem_waiters, fut)
       THEN /\ sem_value' = sem_value - 1
            /\ pc' = [pc EXCEPT ![i] = "opening"]
            /\ admitted' = Append(admitted, i)
            /\ calls' = Called(i, "new_page")
            /\ UNCHANGED <<sem_waiters, fut>>
       ELSE /\ sem_waiters' = Append(sem_waiters, i)
            /\ fut' = [fut EXCEPT ![i] = "pending"]
            /\ pc' = [pc EXCEPT ![i] = "waiting"]
            /\ UNCHANGED <<sem_value, admitted, calls>>
    /\ UNCHANGED <<listing, max_sim_pages, mainpc, loop, playwright, session,
                   links, must_cancel, pages, item, result, completed,
                   nfinished, outer, menu, data_json, soup, extracted>>

\* The waiter's future has its result: acquire() returns (waking the next
\* waiter if the counter is still positive) and the task calls new_page().
TaskAcquired(i) ==
    /\ Runs(i, "ok")
    /\ i \notin must_cancel
    /\ pc[i] = "waiting"
    /\ LET waiters == Remove(sem_waiters, i)
           w == IF sem_value > 0
                THEN _wake_up_next(sem_value, waiters, fut)
                ELSE [value |-> sem_value, fut |-> fut, woken |-> <<>>]
       IN  /\ sem_waiters' = waiters
           /\ sem_value' = w.value
           /\ fut' = w.fut
           /\ ready' = Tail(ready) \o w.woken
    /\ pc' = [pc EXCEPT ![i] = "opening"]
    /\ admitted' = Append(admitted, i)
    /\ calls' = Called(i, "new_page")
    /\ UNCHANGED <<listing, max_sim_pages, mainpc, loop, playwright, session,
                   links, must_cancel, pages, item, result, completed,
                   nfinished, outer, menu, data_json, soup, extracted>>

\* context.new_page() returned the page; page.goto(item_link) is called.
NewPageReturns(i) ==
    /\ Runs(i, "ok")
    /\ i \notin must_cancel
    /\ pc[i] = "opening"
    /\ ready' = Tail(ready)
    /\ pages' = [pages EXCEPT ![new_page(i)] =
                    [opened |-> TRUE, closed |-> FALSE, url |-> AboutBlank]]
    /\ pc' = [pc EXCEPT ![i] = "navigating"]
    /\ calls' = Called(i, "goto")
    /\ UNCHANGED <<listing, max_sim_pages, mainpc, loop, playwright, session,
                   links, sem_value, sem_waiters, fut, must_cancel, item,
                   result, admitted, completed, nfinished, outer, menu,
                   data_json, soup, extracted>>

\* page.goto returned: the page shows the item link; page.content() is called.
GotoReturns(i) ==
    /\ Runs(i, "ok")
    /\ i \notin must_cancel
    /\ pc[i] = "navigating"
    /\ ready' = Tail(ready)
    /\ pages' = [pages EXCEPT ![new_page(i)].url = links[i]]
    /\ pc' = [pc EXCEPT ![i] = "reading"]
    /\ UNCHANGED <<listing, max_sim_pages, mainpc, loop, playwright, session,
                   links, sem_value, sem_waiters, fut, must_cancel, item,
                   result, admitted, completed, nfinished, outer, menu,
                   data_json, calls, soup, extracted>>

\* page.content() returned: the document is parsed, the MenuItem is built
\* and page.close() is called.
ContentReturns(i) ==
    /\ Runs(i, "ok")
    /\ i \notin must_cancel
    /\ pc[i] = "reading"
    /\ ready' = Tail(ready)
    /\ item' = (i :> BuildItem(Content(pages[new_page(i)].url))) @@ item
    /\ pc' = [pc EXCEPT ![i] = "closing"]
    /\ calls' = Called(i, "MenuItem")
    /\ UNCHANGED <<listing, max_sim_pages, mainpc, loop, playwright, session,
                   links, sem_value, sem_waiters, fut, must_cancel, pages,
                   result, admitted, completed, nfinished, outer, menu,
                   data_json, soup, extracted>>

\* Leaving the block with the semaphore kept: the task is done and no
\* waiter is woken (an acquire() that is never paired with a release).
ExitKeepingSlot(i, how) ==
    /\ sem_value' = sem_value
    /\ fut' = fut
    /\ ready' = Tail(ready) \o <<Done(i)>>
    /\ pc' = [pc EXCEPT ![i] = how]
    /\ calls' = calls

\* Leaving the "async with semaphore" block of task i in state how: the
\* semaphore is released and the task is done, which schedules gather's
\* callback after the wakeup of the next waiter.
ExitBlock(i, how) ==
    LET r == release(sem_value, sem_waiters, fut)
    IN  /\ sem_value' = r.value
        /\ fut' = r.fut
        /\ ready' = (Tail(ready) \o r.woken) \o <<Done(i)>>
        /\ pc' = [pc EXCEPT ![i] = how]
        /\ calls' = Called(i, "release")

\* The item is returned with page.close() never awaited: the page stays open.
ReturnsPageLeftOpen(i) ==
    /\ Runs(i, "ok")
    /\ i \notin must_cancel
    /\ pc[i] = "closing"
    /\ pages' = pages
    /\ result' = (i :> item[i]) @@ result
    /\ completed' = Append(completed, i)
    /\ ExitBlock(i, "done")
    /\ UNCHANGED <<listing, max_sim_pages, mainpc, loop, playwright, session,
                   links, sem_waiters, must_cancel, item, admitted, nfinished,
                   outer, menu, data_json, soup, extracted>>

\* page.close() returned: the item is returned.
CloseReturns(i) ==
    /\ Runs(i, "ok")
    /\ i \notin must_cancel
    /\ pc[i] = "closing"
    /\ pages' = [pages EXCEPT ![new_page(i)].closed = TRUE]
    /\ result' = (i :> item[i]) @@ result
    /\ completed' = Append(completed, i)
    /\ ExitBlock(i, "done")
    /\ UNCHANGED <<listing, max_sim_pages, mainpc, loop, playwright, session,
                   links, sem_waiters, must_cancel, item, admitted, nfinished,
                   outer, menu, data_json, soup, extracted>>

\* new_page, goto or content raised and the task ends with the semaphore
\* not released (an acquire() without a matching release on the error path).
RaisesKeepingSlot(i) ==
    /\ Runs(i, "err")
    /\ i \notin must_cancel
    /\ pc[i] \in {"opening", "navigating", "reading"}
    /\ ready' = Tail(ready) \o <<Done(i)>>
    /\ pc' = [pc EXCEPT ![i] = "failed"]
    /\ UNCHANGED <<listing, max_sim_pages, mainpc, loop, playwright, session,
                   links, sem_value, sem_waiters, fut, must_cancel, pages,
                   item, result, admitted, completed, nfinished, outer, menu,
                   data_json, calls, soup, extracted>>

\* new_page, goto or content raised and the call is made again (a retry
\* loop the code does not have).
RetriesOnError(i) ==
    /\ Runs(i, "err")
    /\ i \notin must_cancel
    /\ pc[i] \in {"opening", "navigating", "reading"}
    /\ ready' = Tail(ready)
    /\ calls' = IF pc[i] = "opening" THEN Called(i, "new_page")
                ELSE IF pc[i] = "navigating" THEN Called(i, "goto")
                ELSE calls
    /\ UNCHANGED <<listing, max_sim_pages, mainpc, loop, playwright, session,
                   links, sem_value, sem_waiters, fut, pc, must_cancel, pages,
                   item, result, admitted, completed, nfinished, outer, menu,
                   data_json, soup, extracted>>

\* new_page, goto or content raised: nothing catches it, the exception
\* leaves the block and ends the task; page.close() is not reached.
AwaitRaises(i) ==
    /\ Runs(i, "err")
    /\ i \notin must_cancel
    /\ pc[i] \in {"opening", "navigating", "reading"}
    /\ ExitBlock(i, "failed")
    /\ UNCHANGED <<listing, max_sim_pages, mainpc, loop, playwright, session,
                   links, sem_waiters, must_cancel, pages, item, result,
                   admitted, completed, nfinished, outer, menu, data_json,
                   soup, extracted>>

\* The task was cancelled: CancelledError is thrown in where it waits.
\* Before its first step the coroutine never runs; in acquire() the future
\* is taken off the queue and a slot already handed over is given back; in
\* the block the semaphore is released.
TaskCancelled(i) ==
    /\ \E o \in {"ok", "err"} : Runs(i, o)
    /\ i \in must_cancel
    /\ pc[i] \in {"created", "waiting"} \cup Waiting
    /\ IF pc[i] = "created"
       THEN /\ ready' = Tail(ready) \o <<Done(i)>>
            /\ pc' = [pc EXCEPT ![i] = "cancelled"]
            /\ UNCHANGED <<sem_value, sem_waiters, fut, calls>>
       ELSE IF pc[i] = "waiting"
       THEN LET waiters == Remove(sem_waiters, i)
                w == IF fut[i] # "cancelled"
                     THEN release(sem_value, waiters, fut)
                     ELSE [value |-> sem_value, fut |-> fut, woken |-> <<>>]
            IN  /\ sem_waiters' = waiters
                /\ sem_value' = w.value
                /\ fut' = w.fut
                /\ ready' = (Tail(ready) \o w.woken) \o <<Done(i)>>
                /\ pc' = [pc EXCEPT ![i] = "cancelled"]
                /\ calls' = calls
       ELSE /\ ExitBlock(i, "cancelled")
            /\ UNCHANGED sem_waiters
    /\ UNCHANGED <<listing, max_sim_pages, mainpc, loop, playwright, session,
                   links, must_cancel, pages, item, result, admitted,
                   completed, nfinished, outer, menu, data_json, soup,
                   extracted>>

\* Between two passes the loop reads what the driver has answered: the
\* wakeup of a task whose call was answered is scheduled, with the result or
\* (for new_page, goto and content) with an error.
IOComplete(i, o) ==
    /\ loop = "running"
    /\ batch = 0
    /\ batch' = batch
    /\ i \notin must_cancel
    /\ pc[i] \in Waiting
    /\ ~Queued(i)
    /\ o = "err" => pc[i] # "closing"
    /\ ready' = Append(ready, Step(i, o))
    /\ UNCHANGED <<listing, max_sim_pages, mainpc, loop, playwright, session,
                   links, sem_value, sem_waiters, fut, pc, must_cancel, pages,
                   item, result, admitted, completed, nfinished, outer, menu,
                   data_json, calls, soup, extracted>>


\* ------------------------------------------------------------------------
\* asyncio.gather and the rest of main()
\* ------------------------------------------------------------------------
\* The results taken in the order the children completed.
results_as_completed(n, res, order) == [k \in 1..n |-> res[order[k]]]

\* gather's result list: the children's results in the order of the children.
gather_results(n, res, order) == [k \in 1..n |-> res[k]]

\* gather(..., return_exceptions=True): a child's exception is a result.
exception_is_result(state) == FALSE

\* gather (return_exceptions=False): the child ended with an exception.
child_raised(state) == state \in {"failed", "cancelled"}

\* gather's _done_callback for child i: the first child that failed or was
\* cancelled sets the outer future's exception; the last child to finish
\* sets its result; once the outer future is done nothing more happens.
GatherDone(i) ==
    /\ batch > 0
    /\ Head(ready) = Done(i)
    /\ batch' = batch - 1
    /\ nfinished' = nfinished + 1
    /\ IF outer.state # "pending"
       THEN /\ outer' = outer
            /\ ready' = Tail(ready)
       ELSE IF child_raised(pc[i])
       THEN /\ outer' = [state |-> "exception", value |-> <<>>]
            /\ ready' = Append(Tail(ready), MainStep)
       ELSE IF nfinished + 1 = Len(links)
       THEN /\ outer' = [state |-> "result",
                         value |-> gather_results(Len(links), result, completed)]
            /\ ready' = Append(Tail(ready), MainStep)
       ELSE /\ outer' = outer
            /\ ready' = Tail(ready)
    /\ UNCHANGED <<listing, max_sim_pages, mainpc, loop, playwright, session,
                   links, sem_value, sem_waiters, fut, pc, must_cancel, pages,
                   item, result, admitted, completed, menu, data_json, calls,
                   soup, extracted>>

\* "await gather" with the exception caught and dropped (a faulty fetch_menu).
swallowed(o) == FALSE

\* "await gather" raises the exception of the outer future.
raises(o) == o.state = "exception"

\* The main task resumes from "await asyncio.gather(...)": fetch_menu returns
\* the list and main calls playwright.stop(), or the exception leaves
\* fetch_menu and main and ends the main task.
MainWakeup ==
    /\ batch > 0
    /\ Head(ready) = MainStep
    /\ batch' = batch - 1
    /\ mainpc = "gather"
    /\ IF ~raises(outer)
       THEN /\ menu' = outer.value
            /\ mainpc' = "stop"
            /\ ready' = Tail(ready)
       ELSE /\ menu' = menu
            /\ mainpc' = "raised"
            /\ ready' = Append(Tail(ready), StopLoop)
    /\ UNCHANGED <<listing, max_sim_pages, loop, playwright, session, links,
                   sem_value, sem_waiters, fut, pc, must_cancel, pages, item,
                   result, admitted, completed, nfinished, outer, data_json,
                   calls, soup, extracted>>

\* item.__dict__ : the fields of the dataclass by name.
as_dict(it) == [f \in MenuItem |-> it[f]]

\* json.dump([item.__dict__ for item in menu], file): the array written.
json_dump(m) == [k \in 1..Len(m) |-> as_dict(m[k])]

\* data.json is written and main returns with playwright.stop() left out.
WritesWithoutStop ==
    /\ loop = "running"
    /\ batch = 0
    /\ batch' = batch
    /\ mainpc = "stop"
    /\ playwright' = playwright
    /\ data_json' = [written |-> TRUE, doc |-> json_dump(menu)]
    /\ mainpc' = "done"
    /\ ready' = Append(ready, StopLoop)
    /\ UNCHANGED <<listing, max_sim_pages, loop, session, links, sem_value,
                   sem_waiters, fut, pc, must_cancel, pages, item, result,
                   admitted, completed, nfinished, outer, menu, calls,
                   soup, extracted>>

\* playwright.stop() returned: data.json is written and main returns.
PlaywrightStopped ==
    /\ loop = "running"
    /\ batch = 0
    /\ batch' = batch
    /\ mainpc = "stop"
    /\ playwright' = "stopped"
    /\ data_json' = [written |-> TRUE, doc |-> json_dump(menu)]
    /\ mainpc' = "done"
    /\ ready' = Append(ready, StopLoop)
    /\ UNCHANGED <<listing, max_sim_pages, loop, session, links, sem_value,
                   sem_waiters, fut, pc, must_cancel, pages, item, result,
                   admitted, completed, nfinished, outer, menu, calls,
                   soup, extracted>>

\* BaseEventLoop._run_once: a pass of the loop runs the callbacks that are
\* ready when it begins; those they schedule wait for the next pass.
BeginPass ==
    /\ loop \in {"running", "closing"}
    /\ batch = 0
    /\ ready # <<>>
    /\ batch' = Len(ready)
    /\ UNCHANGED <<listing, max_sim_pages, mainpc, loop, ready, playwright,
                   session, links, sem_value, sem_waiters, fut, pc,
                   must_cancel, pages, item, result, admitted, completed,
                   nfinished, outer, menu, data_json, calls, soup, extracted>>

\* asyncio.run: the main task is done, run_until_complete stops the loop
\* once the callbacks of this pass have run.
LoopStop ==
    /\ batch > 0
    /\ Head(ready) = StopLoop
    /\ batch' = batch - 1
    /\ loop' = "stopping"
    /\ ready' = Tail(ready)
    /\ UNCHANGED <<listing, max_sim_pages, mainpc, playwright, session, links,
                   sem_value, sem_waiters, fut, pc, must_cancel, pages, item,
                   result, admitted, completed, nfinished, outer, menu,
                   data_json, calls, soup, extracted>>

Unfinished == {i \in Tasks : pc[i] \notin {"done", "failed", "cancelled"}}

\* The wakeups Task.cancel schedules: one for every task that has none due.
CancelWakeups(n) ==
    LET due == [i \in 1..n |-> i \in Unfinished /\ ~Queued(i)]
    IN  SelectSeq([i \in 1..n |-> Step(i, "ok")], LAMBDA c : due[c.task])

\* asyncio.run's _cancel_all_tasks: every unfinished task is cancelled (a
\* pending waiter future is cancelled with it) and the loop runs until they
\* have all ended.
Shutdown ==
    /\ loop = "stopping"
    /\ batch = 0
    /\ batch' = batch
    /\ loop' = "closing"
    /\ must_cancel' = Unfinished
    /\ fut' = [i \in Tasks |->
                 IF i \in Unfinished /\ fut[i] = "pending" THEN "cancelled"
                 ELSE fut[i]]
    /\ ready' = ready \o CancelWakeups(Len(links))
    /\ UNCHANGED <<listing, max_sim_pages, mainpc, playwright, session, links,
                   sem_value, sem_waiters, pc, pages, item, result, admitted,
                   completed, nfinished, outer, menu, data_json, calls,
                   soup, extracted>>

\* Nothing is left to run: asyncio.run closes the loop and returns or raises.
LoopClosed ==
    /\ loop = "closing"
    /\ ready = <<>>
    /\ batch' = batch
    /\ loop' = "closed"
    /\ UNCHANGED <<listing, max_sim_pages, mainpc, ready, playwright, session,
                   links, sem_value, sem_waiters, fut, pc, must_cancel, pages,
                   item, result, admitted, completed, nfinished, outer, menu,
                   data_json, calls, soup, extracted>>

Next ==
    \/ Create
    \/ ListingRaises
    \/ FetchMenu
    \/ \E i \in Tasks : TaskStart(i)
    \/ \E i \in Tasks : TaskAcquired(i)
    \/ \E i \in Tasks : NewPageReturns(i)
    \/ \E i \in Tasks : GotoReturns(i)
    \/ \E i \in Tasks : ContentReturns(i)
    \/ \E i \in Tasks : CloseReturns(i)
    \/ \E i \in Tasks : AwaitRaises(i)
    \/ \E i \in Tasks : TaskCancelled(i)
    \/ \E i \in Tasks, o \in {"ok", "err"} : IOComplete(i, o)
    \/ \E i \in Tasks : GatherDone(i)
    \/ MainWakeup
    \/ PlaywrightStopped
    \/ BeginPass
    \/ LoopStop
    \/ Shutdown
    \/ LoopClosed

Spec == Init /\ [][Next]_vars

\* ------------------------------------------------------------------------
\* The runs in which nothing fails
\* ------------------------------------------------------------------------
\* The GET of the listing page succeeds.
InitOk ==
    /\ \E l \in Listings, k \in 1..MaxK :
          l.status = "ok" /\ InitCrawl(l, k)
    /\ soup = NoNodes
    /\ extracted = [call |-> "none", value |-> <<>>]

\* Every new_page, goto, content and close is answered without an error:
\* no await raises, and so no task is left to cancel when main is done.
NextOk ==
    \/ Create
    \/ FetchMenu
    \/ \E i \in Tasks : TaskStart(i)
    \/ \E i \in Tasks : TaskAcquired(i)
    \/ \E i \in Tasks : NewPageReturns(i)
    \/ \E i \in Tasks : GotoReturns(i)
    \/ \E i \in Tasks : ContentReturns(i)
    \/ \E i \in Tasks : CloseReturns(i)
    \/ \E i \in Tasks : IOComplete(i, "ok")
    \/ \E i \in Tasks : GatherDone(i)
    \/ MainWakeup
    \/ PlaywrightStopped
    \/ BeginPass
    \/ LoopStop
    \/ Shutdown
    \/ LoopClosed

\* The event loop never stops while a callback is ready or a call to the
\* driver is unanswered: it runs every pass to its end, and every call that
\* is awaited is answered.
SpecOk == InitOk /\ [][NextOk]_vars /\ WF_vars(NextOk)


\* ------------------------------------------------------------------------
\* The field extractors on their own: every document of the bounded set is
\* put through _take_string_opt and _take_hidden.
\* ------------------------------------------------------------------------
Chars == {"x", " "}

RECURSIVE SeqsUpTo(_, _)
SeqsUpTo(S, n) ==
    IF n = 0 THEN {<<>>}
    ELSE LET shorter == SeqsUpTo(S, n - 1)
         IN  shorter \cup {Append(s, c) : s \in {t \in shorter : Len(t) = n - 1}, c \in S}

\* Node texts: all texts over Chars up to MaxLen, and texts with the other
\* whitespace characters and with digits.
Texts ==
    SeqsUpTo(Chars, MaxLen)
      \cup {<<"\n">>, <<"\n", "x", "\t">>, <<"x", "\n", "x">>,
            <<"1", "0">>, <<"2", "0">>, <<"3", "0">>}

\* The nodes a selector matches: up to MaxNodes of them, and the three nodes
\* 10, 20, 30.
NodeLists ==
    SeqsUpTo(Texts, MaxNodes) \cup {<< <<"1", "0">>, <<"2", "0">>, <<"3", "0">> >>}

InitExtract ==
    /\ InitCrawl([status |-> "raises", hrefs |-> <<>>], 1)
    /\ \E nodes \in NodeLists : soup = [s \in Selectors |-> nodes]
    /\ extracted = [call |-> "none", value |-> <<>>]

\* name=..., description=... of MenuItem(...)
CallTakeStringOpt(f) ==
    /\ extracted.call = "none"
    /\ extracted' = [call |-> "_take_string_opt",
                     value |-> _take_string_opt(soup, Selector(f))]
    /\ UNCHANGED <<crawl_vars, soup>>

\* calories=..., ..., portion=... of MenuItem(...)
CallTakeHidden(f) ==
    /\ extracted.call = "none"
    /\ extracted' = [call |-> "_take_hidden",
                     value |-> _take_hidden(soup, Selector(f))]
    /\ UNCHANGED <<crawl_vars, soup>>

NextExtract ==
    \/ \E f \in SingleFields : CallTakeStringOpt(f)
    \/ \E f \in MenuItem \ SingleFields : CallTakeHidden(f)

SpecExtract == InitExtract /\ [][NextExtract]_vars



\* ------------------------------------------------------------------------
\* Properties
\* ------------------------------------------------------------------------
Ended == {"done", "failed", "cancelled"}

Range(seq) == {seq[k] : k \in 1..Len(seq)}

ItemLink(i) == urljoin(BASE_URL, listing.hrefs[i])

\* fetch_menu has returned its list to main.
Returned == mainpc \in {"stop", "done"}

Failed == \E i \in Tasks : pc[i] = "failed"

\* page.goto raised in task i: it failed with its page open and not navigated.
NavigationFailed ==
    \E i \in Tasks :
        pc[i] = "failed" /\ pages[i].opened /\ pages[i].url = AboutBlank

\* C1 - order preservation: when fetch_menu returns, the list has one element
\* per item link of the listing page and its i-th element is the MenuItem
\* that the i-th invocation built from the page it navigated to the i-th
\* link, in whatever order the invocations completed.
C1_OrderPreserved ==
    Returned =>
        /\ Len(menu) = Len(listing.hrefs)
        /\ \A i \in 1..Len(menu) :
              /\ pc[i] = "done"
              /\ menu[i] = item[i]
              /\ pages[i].url = ItemLink(i)

\* C1 witness: a list of different items returned after the second
\* invocation completed before the first.
C1_Witness ==
    /\ Returned
    /\ Len(menu) >= 2
    /\ menu[1] # menu[2]
    /\ completed[1] = 2

\* C2 - concurrency bound: the invocations of _parse_item that have opened a
\* page and have not closed it yet are never more than max_sim_pages.
HoldsPage(i) == pc[i] \notin Ended /\ pages[i].opened /\ ~pages[i].closed

C3_PageClosedOnEveryExit ==
    \A i \in Tasks : (pc[i] \in Ended /\ pages[i].opened) => pages[i].closed


\* Task j only stays where it is or ends cancelled in this step.
Halted(j) == pc'[j] \in {pc[j], "cancelled"}

\* C4 - batch abort on first failure, as claimed: from the moment the
\* navigation of an item has raised, no pending invocation is admitted and
\* no in-flight invocation navigates, extracts or completes any more.
C4_AbortsAllOthersAtFailure ==
    [][NavigationFailed => \A j \in Tasks : Halted(j)]_vars

\* C4, amended: once the navigation of an item has raised, fetch_menu
\* returns no list (the exception leaves it and main, nothing is written);
\* the other invocations go on until asyncio.run cancels the unfinished
\* tasks, and from that cancellation on none of them is admitted or advances.
C4_AbortsAllOthersAtShutdown ==
    [][/\ NavigationFailed' => (~Returned' /\ ~data_json'.written)
       /\ loop \in {"closing", "closed"} => \A j \in Tasks : Halted(j)]_vars

\* C4 witness: a navigation raised, the exception left main, and a later
\* invocation that had been admitted and had opened its page was cancelled
\* at shutdown.
C4_Witness ==
    /\ NavigationFailed
    /\ mainpc = "raised"
    /\ loop = "closed"
    /\ \E i, j \in Tasks :
          /\ i < j
          /\ pc[i] = "failed"
          /\ pc[j] = "cancelled"
          /\ pages[j].opened

\* The items of the listing's links, fetched one after the other.
ExpectedMenu == [i \in 1..Len(listing.hrefs) |-> BuildItem(Content(ItemLink(i)))]

\* C5 - no output on fatal error, as claimed: data.json is written only when
\* the listing fetch and every item fetch succeeded, and then holds one
\* record per link, in order, each with the 10 fields; when the listing
\* fetch or an item fetch raised, nothing is written.
C5_OutputOnlyOnSuccess ==
    /\ data_json.written =>
          /\ listing.status = "ok"
          /\ \A i \in Tasks : pc[i] = "done"
          /\ Len(data_json.doc) = Len(listing.hrefs)
          /\ \A i \in 1..Len(data_json.doc) :
                /\ DOMAIN data_json.doc[i] = MenuItem
                /\ data_json.doc[i] = as_dict(ExpectedMenu[i])
    /\ (mainpc = "raised" \/ Failed) => ~data_json.written

\* C6 - the listing-fetch failure is fatal, as claimed: when the GET raised
\* or answered with an error status, no item link is extracted, no page is
\* opened and no output document is written.
C6_ListingFailureIsFatal ==
    listing.status # "ok" =>
        /\ links = <<>>
        /\ \A i \in Tasks : ~pages[i].opened
        /\ ~data_json.written

\* C7 - degenerate K: the list fetch_menu returns is the list of the items
\* of the listing's links in document order, whatever max_sim_pages is.
C7_SameMenuForEveryK ==
    Returned => menu = ExpectedMenu

\* C7 witness: a list of different items returned by a run in which
\* invocations had to queue (max_sim_pages < N).
C7_Witness ==
    /\ Returned
    /\ max_sim_pages < Len(menu)
    /\ menu[1] # menu[2]
    /\ Len(admitted) = Len(menu)

\* Whether v is t without its leading and trailing whitespace.
IsTrimOf(v, t) ==
    \E a, b \in 0..Len(t) :
        /\ a + b <= Len(t)
        /\ v = SubSeq(t, a + 1, Len(t) - b)
        /\ \A k \in 1..a : t[k] \in Whitespace
        /\ \A k \in (Len(t) - b + 1)..Len(t) : t[k] \in Whitespace
        /\ v # <<>> => (v[1] \notin Whitespace /\ v[Len(v)] \notin Whitespace)

\* C8 - single-mode fields: _take_string_opt gives the text of the first
\* matching node without its leading and trailing whitespace, the empty
\* string when no node matches, and never raises.
C8_SingleMode ==
    extracted.call = "_take_string_opt" =>
        LET nodes == soup[Selector("name")]
        IN  /\ extracted.value # AttributeError
            /\ nodes = <<>> => extracted.value = <<>>
            /\ nodes # <<>> => IsTrimOf(extracted.value, nodes[1])

\* C8 witness: _take_string_opt returned a text that lost whitespace at
\* both ends and kept the whitespace inside.
C8_Witness ==
    /\ extracted.call = "_take_string_opt"
    /\ soup[Selector("name")] # <<>>
    /\ soup[Selector("name")][1] = <<"\n", "x", "\t">>
    /\ extracted.value = <<"x">>

\* The text t without its leading and trailing whitespace.
Trimmed(t) ==
    CHOOSE v \in {SubSeq(t, a, b) : a \in 1..(Len(t) + 1), b \in 0..Len(t)} :
        IsTrimOf(v, t)

\* Where the k-th part begins in the joined text: after the parts before it
\* and one separator for each.
RECURSIVE Offset(_, _)
Offset(nodes, k) ==
    IF k = 1 THEN 0
    ELSE Offset(nodes, k - 1) + Len(Trimmed(nodes[k - 1])) + 1

\* C9 - joined-mode fields: _take_hidden gives the trimmed texts of all
\* matching nodes in document order, one newline between two of them and
\* none before the first or after the last: nothing for no match, the
\* trimmed text for one, and 10, 20, 30 give the three with two newlines.
C9_JoinedMode ==
    extracted.call = "_take_hidden" =>
        LET nodes == soup[Selector("calories")]
            n == Len(nodes)
            v == extracted.value
        IN  /\ n = 0 => v = <<>>
            /\ n = 1 => IsTrimOf(v, nodes[1])
            /\ n > 0 => Len(v) = Offset(nodes, n) + Len(Trimmed(nodes[n]))
            /\ \A k \in 1..n :
                  /\ IsTrimOf(SubSeq(v, Offset(nodes, k) + 1,
                                     Offset(nodes, k) + Len(Trimmed(nodes[k]))),
                              nodes[k])
                  /\ k > 1 => v[Offset(nodes, k)] = "\n"
            /\ nodes = << <<"1", "0">>, <<"2", "0">>, <<"3", "0">> >>
                  => v = <<"1", "0", "\n", "2", "0", "\n", "3", "0">>

\* C9 witness: _take_hidden was given the three nodes 10, 20, 30.
C9_Witness ==
    /\ extracted.call = "_take_hidden"
    /\ soup[Selector("calories")] = << <<"1", "0">>, <<"2", "0">>, <<"3", "0">> >>
    /\ Len(extracted.value) = 8

\* Task i has asked the semaphore for a slot.
Requested(i) == fut[i] # "none" \/ i \in Range(admitted)

\* C10 - first come, first admitted: the invocations ask for a slot in input
\* order, they wait in input order, and they are admitted in input order:
\* invocation j is never admitted before an invocation i < j.
C10_FirstComeFirstAdmitted ==
    /\ \A i, j \in Tasks : (i < j /\ Requested(j)) => Requested(i)
    /\ \A k \in 1..(Len(sem_waiters) - 1) : sem_waiters[k] < sem_waiters[k + 1]
    /\ \A k \in 1..Len(admitted) : admitted[k] = k

\* C10 witness: with two slots, the second invocation completed before the
\* first and the third was admitted while the first was still in flight.
C10_Witness ==
    /\ max_sim_pages = 2
    /\ Len(admitted) = 3
    /\ completed = <<2>>
    /\ pc[1] \in Waiting
    /\ pc[3] \in Waiting

\* C12 - all-settled join on success: in every state in which fetch_menu has
\* returned its list, every one of the N invocations has returned its
\* MenuItem, every page that was opened is closed, all max_sim_pages slots of
\* the semaphore are free and nobody waits for one; so fetch_menu has not
\* returned while an invocation is still opening, navigating, reading or
\* closing its page.
C12_AllSettledJoin ==
    /\ Returned =>
          /\ Len(links) = Len(listing.hrefs)
          /\ Len(menu) = Len(links)
          /\ \A i \in Tasks :
                /\ pc[i] = "done"
                /\ i \in DOMAIN result
                /\ result[i] = item[i]
                /\ pages[i].opened => pages[i].closed
          /\ sem_value = max_sim_pages
          /\ sem_waiters = <<>>
    /\ (\E i \in Tasks : pc[i] \in Waiting) => ~Returned

\* C12 witness: fetch_menu returned after more invocations than slots, so
\* that some of them had to wait for a slot before they completed.
C12_Witness ==
    /\ Returned
    /\ Len(links) > max_sim_pages
    /\ \A i \in Tasks : pages[i].closed

\* C13 - HTTP client scoped release, as claimed: in every run that has
\* terminated (asyncio.run has closed the loop), with success or with an
\* error, the HTTP client entered in MacParser.create has been exited.
C13_SessionReleased ==
    loop = "closed" => session = "closed"

\* fetch_menu has extracted the links and handed the invocations to gather.
Dispatched == outer.state # "none"

\* C14 - exactly once per item link, no retry: once fetch_menu has
\* dispatched, there is one invocation per position of the listing's links
\* (a repeated link has one per position), it is for the link of its
\* position, it has called new_page, goto and MenuItem at most once each and
\* was admitted at most once; and an invocation that has ended (returned,
\* failed or cancelled) never moves or calls anything again.
C14_ExactlyOncePerLink ==
    /\ [](/\ Dispatched =>
                /\ Len(links) = Len(listing.hrefs)
                /\ Len(pc) = Len(links)
                /\ \A i \in Tasks : links[i] = ItemLink(i)
          /\ \A i \in Tasks :
                /\ calls[i].new_page <= 1
                /\ calls[i].goto <= 1
                /\ calls[i].MenuItem <= 1
                /\ pages[i].opened => calls[i].new_page = 1
                /\ pages[i].url # AboutBlank => calls[i].goto = 1
                /\ i \in DOMAIN item => calls[i].MenuItem = 1
          /\ \A a, b \in 1..Len(admitted) :
                a # b => admitted[a] # admitted[b])
    /\ [][\A i \in Tasks :
            pc[i] \in Ended =>
                /\ i \in DOMAIN pc'
                /\ pc'[i] = pc[i]
                /\ calls'[i] = calls[i]
                /\ pages'[i] = pages[i]]_vars

\* C14 witness: the listing repeats a link at its first two positions; both
\* invocations navigated once and returned, and the navigation of a third
\* invocation raised and the run has ended without a second attempt.
C14_Witness ==
    /\ Len(links) = 3
    /\ links[1] = links[2]
    /\ pc[1] = "done" /\ calls[1].goto = 1
    /\ pc[2] = "done" /\ calls[2].goto = 1
    /\ pc[3] = "failed" /\ calls[3].goto = 1 /\ pages[3].url = AboutBlank
    /\ loop = "closed"

\* C16 - open pages bounded under failure, as claimed: the pages that were
\* opened on the browser context and are not closed are never more than
\* max_sim_pages, also in runs in which navigations raise.
C16_OpenPagesBounded ==
    Cardinality({i \in Tasks : pages[i].opened /\ ~pages[i].closed})
        <= max_sim_pages

\* The invocations inside the "async with semaphore" block.
InBlock == {i \in Tasks : pc[i] \in Waiting}

\* The waiters a slot was handed to by a release and that have not resumed
\* from acquire() yet.
HandedOver == {i \in Tasks : pc[i] = "waiting" /\ fut[i] = "result"}

\* C15 - slot conservation, as claimed: in every state after the semaphore
\* was made, the free permits and the invocations inside the block add up
\* to max_sim_pages.
C15_SlotConservation ==
    Dispatched => sem_value + Cardinality(InBlock) = max_sim_pages

\* C15, amended: the free permits, the invocations inside the block and the
\* waiters that were handed a permit and have not resumed yet add up to
\* max_sim_pages; the free permits stay within 0..max_sim_pages; and an
\* invocation has released exactly once when it has left the block, by
\* returning, by an exception of new_page, goto or content or by
\* cancellation, and never otherwise.
C15_SlotConservationWithHandOver ==
    /\ Dispatched =>
          sem_value + Cardinality(InBlock) + Cardinality(HandedOver)
              = max_sim_pages
    /\ sem_value \in 0..max_sim_pages
    /\ \A i \in Tasks :
          calls[i].release =
              IF pc[i] \in Ended /\ i \in Range(admitted) THEN 1 ELSE 0

\* C15 witness: an invocation left the block through an exception and
\* released once; its permit was handed to a waiter that has not resumed.
C15_Witness ==
    /\ \E i \in Tasks : pc[i] = "failed" /\ calls[i].release = 1
    /\ HandedOver # {}
    /\ sem_value = 0

\* C17 - render session shutdown ordering: playwright is stopped only when
\* fetch_menu has returned, every invocation has returned and every opened
\* page is closed; the step that stops it starts from a state in which the
\* output document is not written yet, and the document is never written
\* with playwright not stopped; and once playwright is stopped no page is
\* opened, navigated or closed and no invocation calls anything.
C17_ShutdownOrdering ==
    /\ [](playwright = "stopped" =>
            /\ Returned
            /\ \A i \in Tasks :
                  /\ pc[i] = "done"
                  /\ pages[i].opened => pages[i].closed)
    /\ [](data_json.written => playwright = "stopped")
    /\ [][(playwright # "stopped" /\ playwright' = "stopped") =>
            /\ mainpc = "stop"
            /\ ~data_json.written]_vars
    /\ [][playwright = "stopped" =>
            /\ playwright' = "stopped"
            /\ pages' = pages
            /\ calls' = calls
            /\ pc' = pc]_vars

\* C17 witness: a successful run of several items has ended: playwright is
\* stopped, every page is closed and the document of the items is written.
C17_Witness ==
    /\ playwright = "stopped"
    /\ Len(menu) >= 2
    /\ \A i \in Tasks : pages[i].closed
    /\ data_json.written
    /\ Len(data_json.doc) = Len(menu)
    /\ loop = "closed"

\* C11 - termination without deadlock: in the runs in which the listing
\* fetch succeeds and every page open, navigation, content retrieval and
\* close completes without error, under fair scheduling (1) there is no
\* state in which an invocation waits for the semaphore while fewer than
\* max_sim_pages invocations are inside the block and no waiter has its
\* wake-up scheduled, (2) every invocation is eventually admitted, and
\* (3) fetch_menu eventually returns a list of N results.
C11_Termination ==
    /\ []((/\ \E i \in Tasks : pc[i] = "waiting"
           /\ Cardinality(InBlock) < max_sim_pages)
             => \E j \in HandedOver : Queued(j))
    /\ \A i \in 1..MaxLinks :
          (i \in Tasks) ~> (i \in Range(admitted))
    /\ (mainpc = "get") ~>
          (Returned /\ Len(menu) = Len(listing.hrefs)
             /\ \A i \in Tasks : i \in Range(admitted))

\* C11 witness: with more invocations than slots, fetch_menu has returned
\* all N results after the last invocation had waited for a slot.
C11_Witness ==
    /\ Returned
    /\ Len(menu) = Len(listing.hrefs)
    /\ Len(menu) > max_sim_pages
    /\ admitted[Len(admitted)] = Len(menu)
    /\ fut[Len(menu)] = "result"

====
